---- MODULE Spec2Model ----
(***************************************************************************)
(* Export resolution of NormalModule                                       *)
(* (crates/rolldown/src/bundler/module/normal_module.rs):                  *)
(* resolve_export, get_exported_names and resolve_star_exports over a      *)
(* module graph held in an id-addressed table.                             *)
(***************************************************************************)
EXTENDS Integers, Sequences, FiniteSets, TLC

VARIABLES
  modules,       \* ModuleVec: id -> Module (Normal or External), fixed after Init
  resolve_set,   \* the caller's Vec<(ModuleId, &Atom)> handed to resolve_export
  symbols,       \* Symbols: the registry resolve_export unions into
  pc,            \* "idle" | "returned" | "panicked" (unimplemented!() was hit)
  call,          \* the last top-level resolve_export call: [id, name]
  resolution,    \* what that call returned (kind "Panic" when it did not return)
  calls,         \* every resolve_export invocation of that call, nested ones included
  ncalls,        \* how many top-level resolve_export calls were made
  stack,         \* the caller's Vec<ModuleId> handed to get_exported_names
  gen_pc,        \* "idle" | "returned": the get_exported_names call
  gen_call,      \* the module get_exported_names was called on
  exported,      \* the set of names it returned
  gen_calls,     \* every get_exported_names invocation of that call
  rse_pc,        \* "idle" | "loop" | "done": resolve_star_exports
  rse_self,      \* the module resolve_star_exports runs on
  visited,       \* its visited set
  resolved,      \* its result list
  queue,         \* its work list
  source_mutations,  \* id -> Vec<SourceMutation> of that NormalModule
  is_symbol_for_namespace_referenced,  \* id -> bool, fixed after Init
  final_names,   \* ctx.canonical_names: the symbols the naming pass renamed
  fin_pc         \* id -> "idle" | "visited" | "done": where finalize stands

resolver_vars == <<resolve_set, symbols, pc, call, resolution, calls, ncalls>>
names_vars == <<stack, gen_pc, gen_call, exported, gen_calls>>
closure_vars == <<rse_pc, rse_self, visited, resolved, queue>>
finalize_vars == <<source_mutations, is_symbol_for_namespace_referenced,
                   final_names, fin_pc>>
vars == <<modules, resolver_vars, names_vars, closure_vars, finalize_vars>>

----------------------------------------------------------------------------
(* Bounds of the model *)

\* longest star_exports list of the module that heads a graph
MaxStars == 2

\* how many resolve_export calls a caller makes in a row
MaxCalls == 2

----------------------------------------------------------------------------
(* Identities *)

NormalIds == {"a", "b", "c", "d"}
ExternalIds == {"ext"}
ModuleIds == NormalIds \cup ExternalIds

Names == {"x", "default"}

\* SymbolRef { owner: ModuleId, symbol: SymbolId }
SymbolRef(owner, symbol) == <<owner, symbol>>
SymbolIds == Names \cup {"ns"}
SymbolRefs == ModuleIds \X SymbolIds
NoSymbol == <<"none", "none">>

\* enum Resolution { None, Ambiguous, Found(SymbolRef) }; "Panic" stands for a
\* call that never returned because unimplemented!() unwound it.
ResNone == [kind |-> "None", sym |-> NoSymbol]
ResAmbiguous == [kind |-> "Ambiguous", sym |-> NoSymbol]
ResFound(s) == [kind |-> "Found", sym |-> s]
ResPanic == [kind |-> "Panic", sym |-> NoSymbol]

----------------------------------------------------------------------------
(* Module records, built from a description of the module's declarations *)

NoEntry == [kind |-> "None", target |-> "none", star |-> FALSE]
DeclEntry == [kind |-> "Decl", target |-> "none", star |-> FALSE]
ImportEntry(t, s) == [kind |-> "Import", target |-> t, star |-> s]
ReEntry(t, s) == [kind |-> "Re", target |-> t, star |-> s]

\* One module's declarations: what it exports under "x", whether it declares a
\* default export, and the targets of its export * clauses in source order.
Desc(e, d, s) == [entry |-> e, has_default |-> d, stars |-> s]

\* struct NormalModule: one import record per export * clause, then one for
\* the clause that brings in "x" when there is one.
NormalModule(id, desc) ==
  LET nstars == Len(desc.stars)
      has_rec == desc.entry.kind \in {"Import", "Re"}
      x_export ==
        IF desc.entry.kind = "Re"
          THEN [kind |-> "Re", referenced |-> NoSymbol, record_id |-> nstars + 1,
                imported |-> "x", is_imported_star |-> desc.entry.star]
          ELSE [kind |-> "Local", referenced |-> SymbolRef(id, "x"), record_id |-> 0,
                imported |-> "x", is_imported_star |-> FALSE]
      d_export == [kind |-> "Local", referenced |-> SymbolRef(id, "default"),
                   record_id |-> 0, imported |-> "default", is_imported_star |-> FALSE]
      keys == (IF desc.entry.kind = "None" THEN {} ELSE {"x"})
              \cup (IF desc.has_default THEN {"default"} ELSE {})
  IN [kind |-> "Normal",
      id |-> id,
      named_imports |->
        [s \in (IF desc.entry.kind = "Import" THEN {"x"} ELSE {}) |->
           [record_id |-> nstars + 1, imported |-> "x",
            is_imported_star |-> desc.entry.star]],
      named_exports |-> [n \in keys |-> IF n = "x" THEN x_export ELSE d_export],
      import_records |->
        [i \in 1..(nstars + IF has_rec THEN 1 ELSE 0) |->
           IF i <= nstars THEN desc.stars[i] ELSE desc.entry.target],
      star_exports |-> [i \in 1..nstars |-> i],
      namespace_symbol |-> SymbolRef(id, "ns")]

\* ExternalModule: only its usage table, name -> symbol
ExternalModule(id, keys) ==
  [kind |-> "External",
   id |-> id,
   symbols_imported_by_others |-> [n \in keys |-> SymbolRef(id, n)],
   namespace_symbol |-> SymbolRef(id, "ns")]

Graph(da, db, dc, dd, ext_keys) ==
  [m \in ModuleIds |->
     CASE m = "a" -> NormalModule("a", da)
       [] m = "b" -> NormalModule("b", db)
       [] m = "c" -> NormalModule("c", dc)
       [] m = "d" -> NormalModule("d", dd)
       [] OTHER -> ExternalModule(m, ext_keys)]

\* rec.resolved_module of the import record a module's record id names
ResolvedModule(self, record_id) == self.import_records[record_id]

\* the targets of a module's export * clauses, in order
StarTargets(self) ==
  [i \in 1..Len(self.star_exports) |-> ResolvedModule(self, self.star_exports[i])]

SeqsUpTo(S, n) == UNION {[1..k -> S] : k \in 0..n}
Entries(targets) ==
  {NoEntry, DeclEntry}
    \cup {ImportEntry(t, s) : t \in targets, s \in BOOLEAN}
    \cup {ReEntry(t, s) : t \in targets, s \in BOOLEAN}

----------------------------------------------------------------------------
(* Symbols: the registry of binding equivalences *)

SymbolsInit == [s \in SymbolRefs |-> s]
Find(reg, s) == reg[s]
Union(reg, a, b) ==
  LET ra == Find(reg, a)
      rb == Find(reg, b)
  IN [s \in DOMAIN reg |-> IF reg[s] = ra THEN rb ELSE reg[s]]

\* ExternalModule::resolve_export(name, is_star) -> SymbolRef
ExternalResolveExport(importee, name, is_star) ==
  IF is_star THEN importee.namespace_symbol ELSE SymbolRef(importee.id, name)

----------------------------------------------------------------------------
(* NormalModule::resolve_export *)

\* StarStep with the comparison of the two symbols left out
StarStepKeepFirst(star_resolution, exist) ==
  IF star_resolution # NoSymbol THEN "continue" ELSE "set"

\* resolve_set.iter().rev().any(|prev| prev == &record)
Contains(trail, record) == \E i \in 1..Len(trail) : trail[i] = record

\* resolve_set.pop(): drops the last element, whichever it is
Pop(trail) == IF trail = <<>> THEN trail ELSE SubSeq(trail, 1, Len(trail) - 1)

\* if let Resolution::Found(exist) = &resolved { symbols.union(local.referenced, *exist) }
UnionIfFound(reg, referenced, res) ==
  IF res.kind = "Found" THEN Union(reg, referenced, res.sym) ELSE reg

\* The star scan's handling of one Found(exist) against the running candidate:
\* "set" the candidate, "continue" past an equal one, or return "ambiguous".
StarStep(star_resolution, exist) ==
  IF star_resolution # NoSymbol
    THEN IF star_resolution = exist THEN "continue" ELSE "ambiguous"
    ELSE "set"

\* IsImportedSymbol that takes every exported symbol for a declaration
IsImportedSymbolNever(self, referenced) == FALSE

\* self.named_imports.get(&local.referenced.symbol) is Some: the exported
\* local symbol is the import-side symbol of a NamedImport
IsImportedSymbol(self, referenced) == referenced[2] \in DOMAIN self.named_imports

\* IsDefault with the check left out
IsDefaultNever(export_name) == FALSE

\* export_name.as_str() == "default"
IsDefault(export_name) == export_name = "default"

\* RegistryAfterReExport with the Local arm's union copied into the Re arm
RegistryAfterReExportUnion(reg, self, info, res) ==
  UnionIfFound(reg, SymbolRef(self.id, info.imported), res)

\* The Re arm hands on what the importee answered and touches no registry
RegistryAfterReExport(reg, self, info, res) == reg

\* ExternalStarAnswer that looks the name up in the external module's table
ExternalStarAnswerLookup(importee, export_name) ==
  IF export_name \in DOMAIN importee.symbols_imported_by_others
    THEN ResFound(importee.symbols_imported_by_others[export_name])
    ELSE ResNone

\* Module::External(_) => {} in the star scan: the arm is empty, the scan
\* goes on as after a None
ExternalStarAnswer(importee, export_name) == ResNone

\* What an invocation leaves behind: its result, the trail and the registry as
\* they are when control leaves it, and the record of it and of its subcalls.
\* frame.stack is the chain of active invocations, this one last, each with
\* the trail it was entered with.
Leave(frame, ret, trail, reg, log) ==
  [ret |-> ret, trail |-> trail, reg |-> reg,
   log |-> log \cup {[stack |-> frame.stack, id |-> frame.id, name |-> frame.name,
                      entry |-> frame.entry, exit |-> trail, ret |-> ret]}]

RECURSIVE ResolveExport(_, _, _, _, _)
RECURSIVE StarScan(_, _, _, _, _, _, _, _)

\* for e in &self.star_exports { ... } from index i on; early is TRUE when the
\* loop was left by a return statement.
StarScan(self, export_name, i, star_resolution, trail, reg, log, chain) ==
  IF i > Len(self.star_exports)
    THEN [ret |-> IF star_resolution = NoSymbol THEN ResNone
                  ELSE ResFound(star_resolution),
          early |-> FALSE, trail |-> trail, reg |-> reg, log |-> log]
    ELSE
      LET importee == modules[ResolvedModule(self, self.star_exports[i])]
          r == IF importee.kind = "Normal"
                 THEN ResolveExport(importee.id, export_name, trail, reg, chain)
                 ELSE [ret |-> ExternalStarAnswer(importee, export_name),
                       trail |-> trail, reg |-> reg, log |-> {}]
          out(ret) == [ret |-> ret, early |-> TRUE, trail |-> r.trail,
                       reg |-> r.reg, log |-> log \cup r.log]
          next(cand) == StarScan(self, export_name, i + 1, cand, r.trail,
                                 r.reg, log \cup r.log, chain)
      IN CASE r.ret.kind = "Panic" -> out(ResPanic)
           [] r.ret.kind = "None" -> next(star_resolution)
           [] r.ret.kind = "Ambiguous" -> out(ResAmbiguous)
           [] OTHER ->
                LET step == StarStep(star_resolution, r.ret.sym)
                IN CASE step = "continue" -> next(star_resolution)
                     [] step = "ambiguous" -> out(ResAmbiguous)
                     [] OTHER -> next(r.ret.sym)

ResolveExport(id, export_name, trail0, reg0, chain) ==
  LET self == modules[id]
      record == <<id, export_name>>
      frame == [stack |-> Append(chain, [id |-> id, name |-> export_name,
                                         entry |-> trail0]),
                id |-> id, name |-> export_name, entry |-> trail0]
      pushed == Append(trail0, record)
      \* the tail of a branch that recursed: a panic unwinds, a `return` leaves
      \* the trail as it is, falling through reaches resolve_set.pop()
      after(r, ret, reg, early) ==
        IF r.ret.kind = "Panic" THEN Leave(frame, ResPanic, r.trail, r.reg, r.log)
        ELSE Leave(frame, ret, IF early THEN r.trail ELSE Pop(r.trail), reg, r.log)
  IN
  IF Contains(trail0, record)
    THEN Leave(frame, ResPanic, trail0, reg0, {})       \* unimplemented!("handle cycle")
  ELSE IF export_name \in DOMAIN self.named_exports
    THEN
      LET info == self.named_exports[export_name]
      IN IF info.kind = "Local"
           THEN
             IF IsImportedSymbol(self, info.referenced)
               THEN
                 LET named_import == self.named_imports[info.referenced[2]]
                     importee == modules[ResolvedModule(self, named_import.record_id)]
                 IN IF importee.kind = "Normal"
                      THEN
                        IF named_import.is_imported_star
                          THEN Leave(frame, ResFound(importee.namespace_symbol),
                                     Pop(pushed),
                                     UnionIfFound(reg0, info.referenced,
                                                  ResFound(importee.namespace_symbol)),
                                     {})
                          ELSE
                            LET r == ResolveExport(importee.id, named_import.imported,
                                                   pushed, reg0, frame.stack)
                            IN after(r, r.ret,
                                     UnionIfFound(r.reg, info.referenced, r.ret), FALSE)
                      ELSE \* Module::External: return Resolution::Found(resolve)
                        Leave(frame,
                              ResFound(ExternalResolveExport(importee, named_import.imported,
                                                             named_import.is_imported_star)),
                              pushed, reg0, {})
               ELSE Leave(frame, ResFound(info.referenced), Pop(pushed), reg0, {})
           ELSE \* LocalOrReExport::Re(re)
             LET importee == modules[ResolvedModule(self, info.record_id)]
             IN IF importee.kind = "Normal"
                  THEN
                    IF info.is_imported_star
                      THEN \* return Resolution::Found(importee.namespace_symbol.0)
                        Leave(frame, ResFound(importee.namespace_symbol), pushed, reg0, {})
                      ELSE
                        LET r == ResolveExport(importee.id, info.imported, pushed, reg0,
                                               frame.stack)
                        IN after(r, r.ret, RegistryAfterReExport(r.reg, self, info, r.ret),
                                 FALSE)
                  ELSE \* Module::External: return Resolution::Found(resolve)
                    Leave(frame,
                          ResFound(ExternalResolveExport(importee, info.imported,
                                                         info.is_imported_star)),
                          pushed, reg0, {})
  ELSE IF IsDefault(export_name)
    THEN Leave(frame, ResNone, pushed, reg0, {})          \* return Resolution::None
  ELSE
    LET r == StarScan(self, export_name, 1, NoSymbol, pushed, reg0, {}, frame.stack)
    IN after(r, r.ret, r.reg, r.early)

----------------------------------------------------------------------------
(* NormalModule::get_exported_names *)

\* deepest nesting a finite module table allows: one frame per module, and
\* one more that finds its id on the stack
DepthLimit == Cardinality(ModuleIds) + 1

\* OnStack with the cycle check left out
OnStackNever(stk, id) == FALSE

\* WithoutDefault with the filter left out
KeepDefault(names) == names

\* StackPop that leaves the module on the stack
StackPopNothing(stk) == stk

\* stack.pop() before get_exported_names returns its names
StackPop(stk) == Pop(stk)

\* stack.contains(&self.id)
OnStack(stk, id) == \E i \in 1..Len(stk) : stk[i] = id

\* WithoutDefault that lets no name of an export * target through
WithoutDefaultNothing(names) == {}

\* .filter(|name| name.as_str() != "default")
WithoutDefault(names) == {n \in names : n # "default"}

GenLeave(id, entry, ret, stk, log, diverged) ==
  [ret |-> ret, stack |-> stk, diverged |-> diverged,
   log |-> log \cup {[id |-> id, entry |-> entry, exit |-> stk, ret |-> ret]}]

RECURSIVE GetExportedNames(_, _, _)
RECURSIVE StarNames(_, _, _, _, _, _, _)

\* the flat_map over self.star_exports from index i on, names gathered in acc
StarNames(self, i, stk, acc, log, diverged, depth) ==
  IF i > Len(self.star_exports)
    THEN [names |-> acc, stack |-> stk, log |-> log, diverged |-> diverged]
    ELSE
      LET importee == modules[ResolvedModule(self, self.star_exports[i])]
      IN IF importee.kind = "Normal"
           THEN
             LET r == GetExportedNames(importee.id, stk, depth + 1)
             IN StarNames(self, i + 1, r.stack, acc \cup WithoutDefault(r.ret),
                          log \cup r.log, diverged \/ r.diverged, depth)
           ELSE
             StarNames(self, i + 1, stk,
                       acc \cup WithoutDefault(DOMAIN importee.symbols_imported_by_others),
                       log, diverged, depth)

\* depth counts the nested invocations; one nested deeper than DepthLimit is
\* a recursion that does not end, reported as diverged
GetExportedNames(id, stk, depth) ==
  LET self == modules[id]
  IN IF depth > DepthLimit
       THEN [ret |-> {}, stack |-> stk, diverged |-> TRUE, log |-> {}]
     ELSE IF OnStack(stk, id)
       THEN GenLeave(id, stk, {}, stk, {}, FALSE)          \* cycle
     ELSE
       LET r == StarNames(self, 1, Append(stk, id), {}, {}, FALSE, depth)
       IN GenLeave(id, stk, r.names \cup DOMAIN self.named_exports, StackPop(r.stack),
                   r.log, r.diverged)

----------------------------------------------------------------------------
(* NormalModule::resolve_star_exports *)

\* Expand that follows only the first export * clause of the importee
ExpandFirstOnly(q, importee) ==
  IF importee.kind = "Normal" /\ Len(importee.star_exports) > 0
    THEN Append(q, StarTargets(importee)[1])
    ELSE q

\* Unvisited with the visited check left out
UnvisitedAlways(seen, importee_id) == TRUE

\* InitialQueue that starts the loop with nothing to do
InitialQueueEmpty(self) == <<>>

\* let mut queue = self.star_exports ... rec.resolved_module ... collect()
InitialQueue(self) == StarTargets(self)

\* queue.extend(importee.star_exports ... resolved_module) for a Normal
\* importee; Module::External(_) => {}
Expand(q, importee) ==
  IF importee.kind = "Normal" THEN q \o StarTargets(importee) ELSE q

\* if !visited.contains(&importee_id)
Unvisited(seen, importee_id) == importee_id \notin seen

\* One turn of `while let Some(importee_id) = queue.pop()`
LoopBody(st) ==
  LET importee_id == st.queue[Len(st.queue)]
      rest == Pop(st.queue)
  IN IF Unvisited(st.visited, importee_id)
       THEN [visited |-> st.visited \cup {importee_id},
             resolved |-> Append(st.resolved, importee_id),
             queue |-> Expand(rest, modules[importee_id])]
       ELSE [visited |-> st.visited, resolved |-> st.resolved, queue |-> rest]

\* The while loop run to its end: the resolved list it leaves
RECURSIVE RunLoop(_)
RunLoop(st) == IF st.queue = <<>> THEN st.resolved ELSE RunLoop(LoopBody(st))

\* resolve_star_exports(&self, modules) -> Vec<ModuleId>
ResolveStarExports(self) ==
  RunLoop([visited |-> {}, resolved |-> <<>>, queue |-> InitialQueue(self)])

----------------------------------------------------------------------------
(* Callers of resolve_export *)

\* Graphs the resolver is run on: "d" on top, "c" fanning out through up to
\* MaxStars export * clauses, "a" and "b" providing or forwarding "x" to each
\* other or to the external module, "a" also declaring a default export.
ResolveGraphs ==
  {Graph(Desc(ea, TRUE, sa), Desc(eb, FALSE, sb), Desc(NoEntry, FALSE, sc),
         Desc(NoEntry, FALSE, sd), Names) :
     ea \in Entries({"b", "ext"}), sa \in {<<>>, <<"b">>},
     eb \in Entries({"a", "ext"}), sb \in {<<>>, <<"a">>},
     sc \in SeqsUpTo({"a", "b", "ext"}, MaxStars),
     sd \in {<<>>, <<"c">>}}

\* Graphs for a caller that resolves several names one after the other
LinkGraphs ==
  {Graph(Desc(ea, TRUE, sa), Desc(eb, FALSE, <<>>), Desc(NoEntry, FALSE, sc),
         Desc(NoEntry, FALSE, <<>>), Names) :
     ea \in Entries({"b", "ext"}), sa \in {<<>>, <<"b">>},
     eb \in Entries({"a", "ext"}),
     sc \in {<<>>, <<"a", "b">>, <<"b", "a">>}}

NoCall == [id |-> "none", name |-> "none", entry |-> <<>>]

InitNamesIdle ==
  /\ stack = <<>>
  /\ gen_pc = "idle"
  /\ gen_call = "none"
  /\ exported = {}
  /\ gen_calls = {}

InitClosureIdle ==
  /\ rse_pc = "idle"
  /\ rse_self = "none"
  /\ visited = {}
  /\ resolved = <<>>
  /\ queue = <<>>

\* No finalize has run: every mutation list is empty, no namespace is marked
InitFinalizeIdle ==
  /\ source_mutations = [id \in NormalIds |-> <<>>]
  /\ is_symbol_for_namespace_referenced = [id \in NormalIds |-> FALSE]
  /\ final_names = {}
  /\ fin_pc = [id \in NormalIds |-> "idle"]

InitResolverIdle ==
  /\ resolve_set = <<>>
  /\ symbols = SymbolsInit
  /\ pc = "idle"
  /\ ncalls = 0
  /\ call = NoCall
  /\ resolution = ResNone
  /\ calls = {}

\* importer.resolve_export(name, &mut resolve_set, modules, &mut symbols)
CallResolveExport(id, export_name) ==
  /\ pc # "panicked"
  /\ LET r == ResolveExport(id, export_name, resolve_set, symbols, <<>>)
     IN /\ resolve_set' = r.trail
        /\ symbols' = r.reg
        /\ resolution' = r.ret
        /\ calls' = r.log
        /\ pc' = IF r.ret.kind = "Panic" THEN "panicked" ELSE "returned"
  /\ call' = [id |-> id, name |-> export_name, entry |-> resolve_set]
  /\ ncalls' = ncalls + 1
  /\ UNCHANGED <<modules, names_vars, closure_vars, finalize_vars>>

\* the caller starts over with a fresh, empty Vec
NewResolveSet ==
  /\ pc = "returned"
  /\ resolve_set # <<>>
  /\ resolve_set' = <<>>
  /\ UNCHANGED <<modules, symbols, pc, ncalls, call, resolution, calls>>
  /\ UNCHANGED <<names_vars, closure_vars, finalize_vars>>

\* One resolution from a fresh trail and registry
Init ==
  /\ modules \in ResolveGraphs
  /\ InitResolverIdle
  /\ InitNamesIdle
  /\ InitClosureIdle
  /\ InitFinalizeIdle

Next ==
  \E id \in NormalIds, export_name \in Names :
    pc = "idle" /\ CallResolveExport(id, export_name)

Spec == Init /\ [][Next]_vars

\* Up to MaxCalls resolutions sharing the registry; the caller either keeps
\* handing the same Vec or replaces it between calls.
InitLink ==
  /\ modules \in LinkGraphs
  /\ InitResolverIdle
  /\ InitNamesIdle
  /\ InitClosureIdle
  /\ InitFinalizeIdle

NextLink ==
  \/ \E id \in NormalIds, export_name \in Names :
       ncalls < MaxCalls /\ CallResolveExport(id, export_name)
  \/ NewResolveSet

SpecLink == InitLink /\ [][NextLink]_vars

----------------------------------------------------------------------------
(* Callers of get_exported_names *)

\* Graphs whose modules export "x" and "default" themselves or not, joined by
\* export * clauses that form chains, diamonds, cycles and self-cycles; the
\* external module's usage table holds any set of names.
NamesGraphs ==
  {Graph(Desc(ea, da, sa), Desc(NoEntry, db, sb), Desc(ec, FALSE, sc),
         Desc(NoEntry, FALSE, <<>>), ext_keys) :
     ea \in {NoEntry, DeclEntry}, da \in BOOLEAN,
     sa \in {<<>>, <<"a">>, <<"b">>, <<"c">>, <<"ext">>},
     db \in BOOLEAN,
     sb \in {<<>>, <<"a">>, <<"ext">>},
     ec \in {NoEntry, DeclEntry},
     sc \in SeqsUpTo({"a", "b", "c", "ext"}, MaxStars),
     ext_keys \in {{}, {"x"}, Names}}

InitNames ==
  /\ modules \in NamesGraphs
  /\ InitResolverIdle
  /\ InitNamesIdle
  /\ InitClosureIdle
  /\ InitFinalizeIdle

\* module.get_exported_names(&mut stack, modules)
CallGetExportedNames(id) ==
  /\ gen_pc = "idle"
  /\ LET r == GetExportedNames(id, stack, 1)
     IN /\ exported' = r.ret
        /\ stack' = r.stack
        /\ gen_calls' = r.log
        /\ gen_pc' = IF r.diverged THEN "diverged" ELSE "returned"
  /\ gen_call' = id
  /\ UNCHANGED <<modules, resolver_vars, closure_vars, finalize_vars>>

NextNames == \E id \in NormalIds : CallGetExportedNames(id)

SpecNames == InitNames /\ [][NextNames]_vars

----------------------------------------------------------------------------
(* Callers of resolve_star_exports *)

\* Graphs told apart by their export * clauses only
ClosureGraphs ==
  {Graph(Desc(NoEntry, FALSE, sa), Desc(NoEntry, FALSE, sb), Desc(NoEntry, FALSE, sc),
         Desc(NoEntry, FALSE, sd), {}) :
     sa \in {<<>>, <<"a">>, <<"b">>, <<"c">>, <<"ext">>, <<"b", "c">>, <<"b", "ext">>},
     sb \in {<<>>, <<"a">>, <<"c">>, <<"ext">>},
     sc \in SeqsUpTo({"a", "b", "c", "ext"}, MaxStars),
     sd \in {<<>>, <<"c">>, <<"a", "b">>}}

InitClosure ==
  /\ modules \in ClosureGraphs
  /\ InitResolverIdle
  /\ InitNamesIdle
  /\ InitClosureIdle
  /\ InitFinalizeIdle

\* resolve_star_exports is entered: visited, resolved and queue are set up
EnterResolveStarExports(id) ==
  /\ rse_pc = "idle"
  /\ rse_self' = id
  /\ visited' = {}
  /\ resolved' = <<>>
  /\ queue' = InitialQueue(modules[id])
  /\ rse_pc' = "loop"
  /\ UNCHANGED <<modules, resolver_vars, names_vars, finalize_vars>>

\* queue.pop() yields Some(importee_id): one turn of the loop
LoopTurn ==
  /\ rse_pc = "loop"
  /\ queue # <<>>
  /\ LET st == LoopBody([visited |-> visited, resolved |-> resolved, queue |-> queue])
     IN /\ visited' = st.visited
        /\ resolved' = st.resolved
        /\ queue' = st.queue
  /\ UNCHANGED <<modules, resolver_vars, names_vars, finalize_vars, rse_pc, rse_self>>

\* queue.pop() yields None: the loop ends and resolved is returned
ReturnResolved ==
  /\ rse_pc = "loop"
  /\ queue = <<>>
  /\ rse_pc' = "done"
  /\ UNCHANGED <<modules, resolver_vars, names_vars, finalize_vars, rse_self,
               visited, resolved, queue>>

NextClosure ==
  \/ \E id \in NormalIds : EnterResolveStarExports(id)
  \/ LoopTurn
  \/ ReturnResolved

SpecClosure == InitClosure /\ [][NextClosure]_vars

----------------------------------------------------------------------------
(* resolve_export over chains of named exports *)

\* Graphs without export *: "d" names "x" from "a", "a" from "b", "b" from "c"
\* or back from "a", each as a declaration, an import it exports again or a
\* re-export, by name or as a namespace; "c" declares "x" or nothing.
ChainGraphs ==
  {Graph(Desc(ea, TRUE, <<>>), Desc(eb, FALSE, <<>>), Desc(ec, TRUE, <<>>),
         Desc(ed, FALSE, <<>>), Names) :
     ea \in Entries({"b", "ext"}), eb \in Entries({"c", "a"}),
     ec \in {NoEntry, DeclEntry}, ed \in Entries({"a", "ext"})}

InitChain ==
  /\ modules \in ChainGraphs
  /\ InitResolverIdle
  /\ InitNamesIdle
  /\ InitClosureIdle
  /\ InitFinalizeIdle

SpecChain == InitChain /\ [][Next]_vars

----------------------------------------------------------------------------
(* finalize *)

\* SourceMutation::AddNamespaceExport()
AddNamespaceExport == [kind |-> "AddNamespaceExport", symbol |-> NoSymbol]

\* A mutation the Finalizer records for a symbol the naming pass renamed
RenameSymbol(s) == [kind |-> "RenameSymbol", symbol |-> s]

\* The symbols the naming pass may have renamed: one binding per module
RenamableSymbols == {SymbolRef(id, "x") : id \in NormalIds}

\* finalizer.visit_program(program): the Finalizer is built from self.id and
\* ctx.canonical_names, and records the renames of this module's own symbols
VisitProgram(id, names) ==
  IF SymbolRef(id, "x") \in names THEN <<RenameSymbol(SymbolRef(id, "x"))>> ELSE <<>>

\* NamespaceMutations that does not look at the flag
NamespaceMutationsAlways(referenced) == <<AddNamespaceExport>>

\* if self.is_symbol_for_namespace_referenced { push(AddNamespaceExport()) }
NamespaceMutations(referenced) ==
  IF referenced THEN <<AddNamespaceExport>> ELSE <<>>

\* PushAll onto one list shared by every module
PushAllShared(lists, id, ms) == [k \in DOMAIN lists |-> lists[k] \o ms]

\* Pushes onto self.source_mutations, the list of the module finalize runs on
PushAll(lists, id, ms) == [lists EXCEPT ![id] = @ \o ms]

\* The bundler finalizes every module once, after linking
NotYetFinalized(id) == fin_pc[id] = "idle"

\* finalize, up to and including finalizer.visit_program(program)
FinalizeVisit(id) ==
  /\ NotYetFinalized(id)
  /\ source_mutations' = PushAll(source_mutations, id, VisitProgram(id, final_names))
  /\ fin_pc' = [fin_pc EXCEPT ![id] = "visited"]
  /\ UNCHANGED <<modules, resolver_vars, names_vars, closure_vars,
                 is_symbol_for_namespace_referenced, final_names>>

\* finalize, from the check of is_symbol_for_namespace_referenced to its end
FinalizeNamespace(id) ==
  /\ fin_pc[id] = "visited"
  /\ source_mutations' =
       PushAll(source_mutations, id,
               NamespaceMutations(is_symbol_for_namespace_referenced[id]))
  /\ fin_pc' = [fin_pc EXCEPT ![id] = "done"]
  /\ UNCHANGED <<modules, resolver_vars, names_vars, closure_vars,
                 is_symbol_for_namespace_referenced, final_names>>

\* The graph finalize runs over: its shape plays no part in finalize
FinalizeGraphs ==
  {Graph(Desc(ImportEntry("b", TRUE), FALSE, <<>>), Desc(DeclEntry, FALSE, <<>>),
         Desc(NoEntry, FALSE, <<"a">>), Desc(NoEntry, FALSE, <<"c">>), {})}

\* Linking is over: any module's namespace may have been marked referenced,
\* the naming pass may have renamed any symbols, no finalize has run
InitFinalize ==
  /\ modules \in FinalizeGraphs
  /\ InitResolverIdle
  /\ InitNamesIdle
  /\ InitClosureIdle
  /\ source_mutations = [id \in NormalIds |-> <<>>]
  /\ is_symbol_for_namespace_referenced \in [NormalIds -> BOOLEAN]
  /\ final_names \in SUBSET RenamableSymbols
  /\ fin_pc = [id \in NormalIds |-> "idle"]

NextFinalize ==
  \/ \E id \in NormalIds : FinalizeVisit(id)
  \/ \E id \in NormalIds : FinalizeNamespace(id)

SpecFinalize == InitFinalize /\ [][NextFinalize]_vars

----------------------------------------------------------------------------
(* Properties of resolve_export *)

\* the module an invocation record is about
Self(c) == modules[c.id]

\* the invocations an invocation made itself
Children(p) ==
  {c \in calls : /\ Len(c.stack) = Len(p.stack) + 1
                 /\ SubSeq(c.stack, 1, Len(p.stack)) = p.stack}

\* the top-level call has been made and started from an empty trail
FromEmptyTrail == pc # "idle" /\ call.entry = <<>>

\* C1: an invocation whose (module, name) pair is already in the trail it is
\* handed returns None and never aborts.
C1_CycleReturnsNone ==
  \A c \in calls : Contains(c.entry, <<c.id, c.name>>) => c.ret = ResNone

\* C2: every invocation that returns leaves the trail exactly as it was
\* handed it.
C2_TrailBalanced ==
  \A c \in calls : c.ret.kind # "Panic" => c.exit = c.entry

\* An entry that ends a resolution at once: a genuine local declaration, a
\* namespace re-export, or a re-export from an external module.
ProvidesDirectly(self, n) ==
  /\ n \in DOMAIN self.named_exports
  /\ LET info == self.named_exports[n]
     IN IF info.kind = "Local"
          THEN info.referenced[2] \notin DOMAIN self.named_imports
          ELSE \/ info.is_imported_star
               \/ modules[ResolvedModule(self, info.record_id)].kind = "External"

DirectBinding(self, n) ==
  LET info == self.named_exports[n]
      importee == modules[ResolvedModule(self, info.record_id)]
  IN IF info.kind = "Local" THEN info.referenced
     ELSE IF importee.kind = "Normal" /\ info.is_imported_star
       THEN importee.namespace_symbol
     ELSE ExternalResolveExport(importee, info.imported, info.is_imported_star)

\* c: export * from a and from b (in either order), a: export * from b only,
\* b providing n directly; export * never forwards "default"
Diamond(c, a, b, n) ==
  /\ n # "default"
  /\ a # b /\ a # c /\ b # c
  /\ modules[a].kind = "Normal" /\ modules[b].kind = "Normal"
  /\ n \notin DOMAIN modules[c].named_exports
  /\ n \notin DOMAIN modules[a].named_exports
  /\ StarTargets(modules[c]) \in {<<a, b>>, <<b, a>>}
  /\ StarTargets(modules[a]) = <<b>>
  /\ ProvidesDirectly(modules[b], n)

\* C3: when two export * paths of the module reach the same binding, a
\* resolution started with an empty trail returns Found of that binding.
C3_AgreeingStarPathsFound ==
  FromEmptyTrail =>
    \A a, b \in NormalIds :
      Diamond(call.id, a, b, call.name) =>
        resolution = ResFound(DirectBinding(modules[b], call.name))

\* C4: an invocation for a name its module does not export itself returns
\* Ambiguous when two of the star targets it asked answered Found with
\* distinct symbols, and when one of them answered Ambiguous.
C4_ConflictingStarTargetsAmbiguous ==
  \A p \in calls :
    (/\ p.name \notin DOMAIN Self(p).named_exports
     /\ \/ \E c1, c2 \in Children(p) :
             /\ c1.ret.kind = "Found" /\ c2.ret.kind = "Found"
             /\ c1.ret.sym # c2.ret.sym
        \/ \E c1 \in Children(p) : c1.ret.kind = "Ambiguous")
    => p.ret = ResAmbiguous

\* a scan that met two distinct bindings, itself the star target of another scan
C4_Witness ==
  \E p, q \in calls :
    /\ q \in Children(p)
    /\ p.name \notin DOMAIN Self(p).named_exports
    /\ q.name \notin DOMAIN Self(q).named_exports
    /\ \E c1, c2 \in Children(q) :
         /\ c1.ret.kind = "Found" /\ c2.ret.kind = "Found"
         /\ c1.ret.sym # c2.ret.sym
    /\ q.ret = ResAmbiguous
    /\ p.ret = ResAmbiguous

\* the invocation found a Local entry whose symbol is an imported one
ForwardsImport(c) ==
  /\ c.name \in DOMAIN Self(c).named_exports
  /\ Self(c).named_exports[c.name].kind = "Local"
  /\ Self(c).named_exports[c.name].referenced[2] \in DOMAIN Self(c).named_imports

\* C5: an invocation that forwards an imported symbol S and returns Found(f)
\* leaves S and f in one class of the registry.
C5_ForwardedImportUnioned ==
  \A c \in calls :
    (ForwardsImport(c) /\ c.ret.kind = "Found") =>
      Find(symbols, Self(c).named_exports[c.name].referenced) = Find(symbols, c.ret.sym)

\* C10: a second resolve_export of the same (module, name) returns what the
\* first returned.
C10_SecondCallSameResolution ==
  [][(/\ pc = "returned"
      /\ ncalls' = ncalls + 1
      /\ call'.id = call.id
      /\ call'.name = call.name) => resolution' = resolution]_vars

----------------------------------------------------------------------------
(* Properties of get_exported_names *)

Range(seq) == {seq[i] : i \in 1..Len(seq)}

\* a and b export * from each other and nothing else
TwoCycle(a, b) ==
  /\ a # b
  /\ StarTargets(modules[a]) = <<b>>
  /\ StarTargets(modules[b]) = <<a>>
  /\ DOMAIN modules[a].named_exports = {}
  /\ DOMAIN modules[b].named_exports = {}

\* C6: get_exported_names returns on every graph, cyclic ones included; an
\* invocation on a module already on the stack returns the empty set; for two
\* modules that only export * from each other the result is empty.
C6_GetExportedNamesTerminates ==
  gen_pc # "idle" =>
    /\ gen_pc = "returned"
    /\ \A c \in gen_calls : c.id \in Range(c.entry) => c.ret = {}
    /\ \A b \in NormalIds : TwoCycle(gen_call, b) => exported = {}

\* the call on one module of a two-module export * cycle has returned
C6_Witness ==
  /\ gen_pc = "returned"
  /\ \E b \in NormalIds : TwoCycle(gen_call, b)
  /\ \E c \in gen_calls : c.id = gen_call /\ c.entry = <<gen_call, CHOOSE b \in NormalIds : TwoCycle(gen_call, b)>>
  /\ exported = {}

\* C7: "default" is among the names of a module only when the module's own
\* named_exports has it.
C7_DefaultOnlyFromOwnTable ==
  gen_pc = "returned" =>
    ("default" \in exported => "default" \in DOMAIN modules[gen_call].named_exports)

\* a module without a default export whose export * targets, a Normal and an
\* External one, both have "default"
C7_Witness ==
  /\ gen_pc = "returned"
  /\ "default" \notin exported
  /\ "x" \in exported
  /\ \E t \in Range(StarTargets(modules[gen_call])) :
       /\ modules[t].kind = "Normal"
       /\ "default" \in DOMAIN modules[t].named_exports
  /\ \E t \in Range(StarTargets(modules[gen_call])) :
       /\ modules[t].kind = "External"
       /\ "default" \in DOMAIN modules[t].symbols_imported_by_others

----------------------------------------------------------------------------
(* Properties of resolve_star_exports *)

StarEdges(m) ==
  IF modules[m].kind = "Normal" THEN Range(StarTargets(modules[m])) ELSE {}

RECURSIVE ReachFrom(_)
ReachFrom(S) ==
  LET more == S \cup UNION {StarEdges(m) : m \in S}
  IN IF more = S THEN S ELSE ReachFrom(more)

\* the modules one or more export * edges away from m
Reach(m) == ReachFrom(StarEdges(m))

\* a bound on what one turn of the loop adds to the queue
Weight ==
  1 + Cardinality(UNION {DOMAIN modules[m].star_exports : m \in NormalIds})

\* what is left to do: modules not yet visited first, queue length second
Measure == Cardinality(ModuleIds \ visited) * Weight + Len(queue)

\* C8: every turn of the loop lowers a measure that is never negative, so the
\* loop ends; the list returned holds exactly the modules reachable through
\* one or more export * edges, external modules having none going out.
C8_ClosureTerminatesExact ==
  [][/\ (rse_pc = "loop" /\ rse_pc' = "loop") => Measure' < Measure
     /\ rse_pc' = "done" => Range(resolved') = Reach(rse_self')]_vars

\* the closure of a module on an export * cycle that also reaches the
\* external module
C8_Witness ==
  /\ rse_pc = "done"
  /\ rse_self \in Range(resolved)
  /\ "ext" \in Range(resolved)
  /\ Len(resolved) >= 3

NoDuplicates(seq) == \A i, j \in 1..Len(seq) : seq[i] = seq[j] => i = j

\* C9: at every step of the loop and on return, the result list holds no id
\* twice and holds exactly the visited set.
C9_ResolvedNoDuplicates ==
  rse_pc \in {"loop", "done"} =>
    /\ NoDuplicates(resolved)
    /\ Range(resolved) = visited

\* how many export * clauses of the module and of its closure name t
InEdges(t) ==
  Cardinality({<<m, i>> \in (Reach(rse_self) \cup {rse_self}) \X (1..(Weight - 1)) :
                 /\ modules[m].kind = "Normal"
                 /\ i <= Len(modules[m].star_exports)
                 /\ StarTargets(modules[m])[i] = t})

\* a finished run in which some module was reached along several paths
C9_Witness ==
  /\ rse_pc = "done"
  /\ \E t \in visited : InEdges(t) >= 3
  /\ \E t \in Range(InitialQueue(modules[rse_self])) :
       Cardinality({i \in 1..Len(InitialQueue(modules[rse_self])) :
                      InitialQueue(modules[rse_self])[i] = t}) >= 2

----------------------------------------------------------------------------
(* Properties of finalize *)

\* How many AddNamespaceExport mutations a list holds
NamespaceExports(list) ==
  Cardinality({i \in DOMAIN list : list[i] = AddNamespaceExport})

\* C11: a finished finalize has appended no AddNamespaceExport to the list of a
\* module whose namespace was never marked referenced and exactly one to the
\* list of a module whose namespace was marked; no list ever holds more than
\* one, and none holds any before the module's finalize reached its end.
C11_NamespaceExportOnlyIfReferenced ==
  \A id \in NormalIds :
    /\ NamespaceExports(source_mutations[id]) <= 1
    /\ fin_pc[id] # "done" => NamespaceExports(source_mutations[id]) = 0
    /\ fin_pc[id] = "done" =>
         NamespaceExports(source_mutations[id]) =
           IF is_symbol_for_namespace_referenced[id] THEN 1 ELSE 0

\* Two finished modules, one marked and holding one AddNamespaceExport after its
\* renames, one unmarked and holding none
C11_Witness ==
  \E m, n \in NormalIds :
    /\ fin_pc[m] = "done" /\ fin_pc[n] = "done"
    /\ is_symbol_for_namespace_referenced[m]
    /\ ~is_symbol_for_namespace_referenced[n]
    /\ Len(source_mutations[m]) = 2
    /\ source_mutations[m][2] = AddNamespaceExport
    /\ NamespaceExports(source_mutations[n]) = 0
    /\ Len(source_mutations[n]) = 1

\* What a finalize run of the module leaves in its list when no other
\* module's finalize runs before it has finished: the visitor's mutations,
\* then the namespace mutation if there is one
FinalizeAlone(id) ==
  VisitProgram(id, final_names)
    \o NamespaceMutations(is_symbol_for_namespace_referenced[id])

\* C17: however the finalize runs of the modules are ordered or interleaved,
\* each module's mutation list holds only what its own finalize has pushed so
\* far: nothing before it starts, the visitor's mutations between its two
\* steps, and at its end the list a finalize run on its own produces.
C17_FinalizeOrderIndependent ==
  \A id \in NormalIds :
    source_mutations[id] =
      CASE fin_pc[id] = "idle" -> <<>>
        [] fin_pc[id] = "visited" -> VisitProgram(id, final_names)
        [] OTHER -> FinalizeAlone(id)

\* Interleaved runs: two modules are between their two steps with a rename
\* recorded, a third has finished with its namespace mutation, a fourth has
\* not started
C17_Witness ==
  \E m, n, k, l \in NormalIds :
    /\ m # n
    /\ fin_pc[m] = "visited" /\ source_mutations[m] # <<>>
    /\ fin_pc[n] = "visited" /\ source_mutations[n] # <<>>
    /\ fin_pc[k] = "done" /\ NamespaceExports(source_mutations[k]) = 1
    /\ fin_pc[l] = "idle" /\ is_symbol_for_namespace_referenced[l]

----------------------------------------------------------------------------
(* Properties of resolve_export over chains of named exports *)

\* The declaration the chain of named entries behind export n of module m ends
\* at, NoSymbol when there is none: the chain leaves the Normal modules, meets
\* a module without the name or a namespace import, or does not end within
\* fuel modules (a chain that comes back to a module never ends).
RECURSIVE ChainEnd(_, _, _)
ChainEnd(m, n, fuel) ==
  IF fuel = 0 \/ modules[m].kind # "Normal" THEN NoSymbol
  ELSE IF n \notin DOMAIN modules[m].named_exports THEN NoSymbol
  ELSE
    LET self == modules[m]
        info == self.named_exports[n]
        hop(link) ==
          IF link.is_imported_star THEN NoSymbol
          ELSE ChainEnd(ResolvedModule(self, link.record_id), link.imported, fuel - 1)
    IN IF info.kind = "Re" THEN hop(info)
       ELSE IF info.referenced[2] \in DOMAIN self.named_imports
         THEN hop(self.named_imports[info.referenced[2]])
         ELSE info.referenced

\* How many modules the chain behind export n of m runs through
RECURSIVE ChainLength(_, _, _)
ChainLength(m, n, fuel) ==
  IF ChainEnd(m, n, fuel) = NoSymbol THEN 0
  ELSE
    LET self == modules[m]
        info == self.named_exports[n]
    IN IF info.kind = "Re"
         THEN 1 + ChainLength(ResolvedModule(self, info.record_id), info.imported, fuel - 1)
       ELSE IF info.referenced[2] \in DOMAIN self.named_imports
         THEN LET link == self.named_imports[info.referenced[2]]
              IN 1 + ChainLength(ResolvedModule(self, link.record_id), link.imported,
                                 fuel - 1)
         ELSE 1

\* C12: when the named entries behind export n of module m (re-exports and
\* exported imports, through Normal modules, never coming back to a module)
\* end at a declaration S, ResolveExport(m, n) returns Found(S).
C12_NamedChainFound ==
  \A c \in calls :
    LET S == ChainEnd(c.id, c.name, Cardinality(NormalIds))
    IN S # NoSymbol => c.ret = ResFound(S)

\* A call from an empty trail whose chain runs through four modules, with a
\* re-export and an exported import among its links, and returned the
\* declaration at its end
C12_Witness ==
  /\ pc = "returned"
  /\ call.entry = <<>>
  /\ ChainLength(call.id, call.name, Cardinality(NormalIds)) = 4
  /\ \E c \in calls : modules[c.id].named_exports[c.name].kind = "Re"
  /\ \E c \in calls : ForwardsImport(c)
  /\ resolution = ResFound(ChainEnd(call.id, call.name, Cardinality(NormalIds)))
  /\ resolution.sym[1] # call.id

----------------------------------------------------------------------------
(* Properties of resolve_export: default, external star targets, registry *)

\* C13: an invocation for "default" on a module whose own named_exports has
\* no "default" entry returns None and makes no nested invocation, so it asks
\* none of the module's export * targets, whatever they export.
C13_DefaultNotForwardedByStar ==
  \A c \in calls :
    (c.name = "default" /\ "default" \notin DOMAIN Self(c).named_exports)
      => (c.ret = ResNone /\ Children(c) = {})

\* "default" was asked of a module without a default export that has an
\* export * target declaring one; the call returned None
C13_Witness ==
  /\ pc = "returned"
  /\ call.name = "default"
  /\ "default" \notin DOMAIN modules[call.id].named_exports
  /\ \E i \in DOMAIN modules[call.id].star_exports :
       LET t == modules[ResolvedModule(modules[call.id], modules[call.id].star_exports[i])]
       IN t.kind = "Normal" /\ "default" \in DOMAIN t.named_exports
  /\ resolution = ResNone

\* An invocation that reaches the star loop: its pair is not on the trail it
\* was entered with, its module has no entry for the name, the name is not
\* "default"
ScansStars(c) ==
  /\ ~Contains(c.entry, <<c.id, c.name>>)
  /\ c.name \notin DOMAIN Self(c).named_exports
  /\ c.name # "default"

\* The module with its export * clauses that resolve to External modules
\* taken out
WithoutExternalStars(self) ==
  [self EXCEPT !.star_exports =
     SelectSeq(self.star_exports,
               LAMBDA r : modules[ResolvedModule(self, r)].kind = "Normal")]

\* C14: an invocation that reaches the star loop returns what the star loop
\* returns for the same module with every export * clause that resolves to an
\* External module taken out, and leaves the same trail; when all of its
\* export * clauses resolve to External modules it returns None.
C14_ExternalStarTargetsIgnored ==
  \A c \in calls :
    ScansStars(c) =>
      LET r == StarScan(WithoutExternalStars(Self(c)), c.name, 1, NoSymbol,
                        Append(c.entry, <<c.id, c.name>>), SymbolsInit, {}, c.stack)
      IN /\ c.ret = r.ret
         /\ c.exit = IF r.early THEN r.trail ELSE Pop(r.trail)
         /\ WithoutExternalStars(Self(c)).star_exports = <<>> => c.ret = ResNone

\* "x" was asked of a module without an entry for it whose export * clauses
\* all resolve to the external module, which provides "x"; the call returned
\* None
C14_Witness ==
  /\ pc = "returned"
  /\ call.entry = <<>>
  /\ \E c \in calls :
       /\ c.stack = <<[id |-> call.id, name |-> call.name, entry |-> call.entry]>>
       /\ ScansStars(c)
       /\ Self(c).star_exports # <<>>
       /\ \A i \in DOMAIN Self(c).star_exports :
            LET t == modules[ResolvedModule(Self(c), Self(c).star_exports[i])]
            IN t.kind = "External" /\ c.name \in DOMAIN t.symbols_imported_by_others
       /\ c.ret = ResNone

\* An invocation that goes through a ReExport entry to a Normal module by
\* name: its pair is not on the trail it was entered with
ReForward(c) ==
  /\ ~Contains(c.entry, <<c.id, c.name>>)
  /\ c.name \in DOMAIN Self(c).named_exports
  /\ Self(c).named_exports[c.name].kind = "Re"
  /\ ~Self(c).named_exports[c.name].is_imported_star
  /\ modules[ResolvedModule(Self(c), Self(c).named_exports[c.name].record_id)].kind
       = "Normal"

\* C15: a ResolveExport call none of whose invocations went through a Local
\* entry that forwards an imported symbol leaves the registry as it found it,
\* and each of its invocations that went through a ReExport entry to a Normal
\* module made one nested invocation and returned that one's Resolution.
C15_ReExportAddsNoUnion ==
  [][/\ (\A c \in calls' : ~ForwardsImport(c)) => symbols' = symbols
     /\ \A c \in calls' :
          ReForward(c) => /\ Cardinality(Children(c)') = 1
                          /\ \A k \in Children(c)' : c.ret = k.ret]_vars

\* A call that passed an export * clause and then a ReExport entry, which
\* returned the Found of the declaration behind it, with no exported import
\* on the way and the registry still as it was built
C15_Witness ==
  /\ pc = "returned"
  /\ \A c \in calls : ~ForwardsImport(c)
  /\ \E c \in calls :
       /\ ReForward(c)
       /\ Len(c.stack) >= 2
       /\ c.ret.kind = "Found"
       /\ c.ret.sym[1] # c.id
  /\ resolution.kind = "Found"
  /\ symbols = SymbolsInit

----------------------------------------------------------------------------
(* Properties of get_exported_names: the visited stack *)

\* The stack is a path of the graph: no module twice, each module an export *
\* target of the one before it
IsStarPath(stk) ==
  /\ \A i, j \in DOMAIN stk : stk[i] = stk[j] => i = j
  /\ \A i \in DOMAIN stk :
       i > 1 => stk[i] \in Range(StarTargets(modules[stk[i - 1]]))

\* C16: every invocation of GetExportedNames returns with the visited stack
\* it was entered with, which is the path of export * clauses that led to it;
\* it comes back empty-handed as a cycle exactly when its module is on that
\* path, and otherwise returns its module's own names, whether or not the
\* module was visited before on another path.
C16_VisitedStackPathScoped ==
  \A c \in gen_calls :
    /\ c.exit = c.entry
    /\ IsStarPath(c.entry)
    /\ c.entry # <<>> => c.id \in Range(StarTargets(modules[c.entry[Len(c.entry)]]))
    /\ IF OnStack(c.entry, c.id)
         THEN c.ret = {}
         ELSE DOMAIN modules[c.id].named_exports \subseteq c.ret

\* A diamond: one module was visited on two different paths, on neither as a
\* cycle, and returned the same non-empty names both times; the caller's
\* stack is empty again
C16_Witness ==
  /\ gen_pc = "returned"
  /\ stack = <<>>
  /\ \E c1, c2 \in gen_calls :
       /\ c1.id = c2.id
       /\ c1.entry # c2.entry
       /\ ~OnStack(c1.entry, c1.id) /\ ~OnStack(c2.entry, c2.id)
       /\ c1.ret = c2.ret
       /\ c1.ret # {}

----------------------------------------------------------------------------
(* get_exported_names against resolve_star_exports and resolve_export *)

\* The keys a module offers: named_exports of a Normal module, the usage
\* table of an External one
ExportKeys(m) ==
  IF m.kind = "Normal" THEN DOMAIN m.named_exports
  ELSE DOMAIN m.symbols_imported_by_others

\* C18: GetExportedNames of a module, from an empty visited stack, returns
\* the module's own keys together with the keys other than "default" of every
\* module in its ResolveStarExports list.
C18_NamesAreOwnPlusClosure ==
  gen_pc = "returned" =>
    exported =
      DOMAIN modules[gen_call].named_exports
        \cup UNION {ExportKeys(modules[r]) \ {"default"} :
                      r \in Range(ResolveStarExports(modules[gen_call]))}

\* The list holds the external module and a Normal module that is not a
\* direct export * target; a name came in that the module does not have
\* itself, and a "default" of the list was left out
C18_Witness ==
  /\ gen_pc = "returned"
  /\ LET self == modules[gen_call]
         closure == Range(ResolveStarExports(self))
     IN /\ "ext" \in closure
        /\ \E r \in closure \ Range(StarTargets(self)) : r # gen_call
        /\ \E r \in closure : "default" \in ExportKeys(modules[r])
        /\ "default" \notin exported
        /\ exported \ DOMAIN self.named_exports # {}

\* get_exported_names of the module the top-level resolve_export call was
\* made on, from an empty stack
NamesOfCalled == GetExportedNames(call.id, <<>>, 1).ret

\* C19 as stated: a call from an empty trail that returned Found or Ambiguous
\* was for a name in GetExportedNames of its module, and a call for a name in
\* GetExportedNames of its module did not return None.
C19_ResolvedIffExported ==
  (pc = "returned" /\ call.entry = <<>>) =>
    /\ resolution.kind \in {"Found", "Ambiguous"} => call.name \in NamesOfCalled
    /\ call.name \in NamesOfCalled => resolution.kind # "None"

\* C19, amended to the direction that holds: a call from an empty trail that
\* returned Found or Ambiguous was for a name in GetExportedNames of its
\* module. (A name in GetExportedNames may resolve to None.)
C19_ResolvedIsExported ==
  (pc = "returned" /\ call.entry = <<>>) =>
    (resolution.kind \in {"Found", "Ambiguous"} => call.name \in NamesOfCalled)

\* A call for a name its module does not have itself returned Found through
\* two export * clauses in a row, and the name is in GetExportedNames
C19_Witness ==
  /\ pc = "returned"
  /\ call.entry = <<>>
  /\ call.name \notin DOMAIN modules[call.id].named_exports
  /\ resolution.kind = "Found"
  /\ \E c \in calls : Len(c.stack) >= 3 /\ c.ret = resolution
  /\ call.name \in NamesOfCalled

----------------------------------------------------------------------------
(* What resolve_export finds *)

\* The symbols an External module's resolve_export can produce
ExternalAnswers(m) ==
  {ExternalResolveExport(m, n, is_star) : n \in Names, is_star \in BOOLEAN}

\* C20: the symbol of every Found, of nested invocations too, is an ultimate
\* binding: owned by a Normal module it is that module's namespace symbol or
\* a symbol that is no key of that module's named_imports; otherwise it is a
\* symbol an External module's resolve_export produces.
C20_FoundIsUltimateBinding ==
  \A c \in calls :
    c.ret.kind = "Found" =>
      LET s == c.ret.sym
          owner == modules[s[1]]
      IN IF owner.kind = "Normal"
           THEN s = owner.namespace_symbol \/ s[2] \notin DOMAIN owner.named_imports
           ELSE s \in ExternalAnswers(owner)

\* A call on a module that exports an import returned Found of a declaration
\* of another Normal module, and the module's own import-side symbol is a key
\* of its named_imports
C20_Witness ==
  /\ pc = "returned"
  /\ \E c \in calls :
       /\ c.stack = <<[id |-> call.id, name |-> call.name, entry |-> call.entry]>>
       /\ ForwardsImport(c)
       /\ c.ret.kind = "Found"
       /\ c.ret.sym[1] \in NormalIds \ {c.id}
       /\ c.ret.sym # modules[c.ret.sym[1]].namespace_symbol
       /\ Self(c).named_exports[c.name].referenced[2] \in DOMAIN Self(c).named_imports


====
